---- MODULE Spec2Model ----
(***************************************************************************)
(* A model of better-main (src/main.cpp): the stack-backed bounded arena   *)
(* my_cust_allocator, the pmr vector of string views that main builds on   *)
(* top of it, and better_main, which prints the views.                     *)
(*                                                                         *)
(* Two specifications share the state:                                     *)
(*   Spec      an arena of arbitrary capacity driven by arbitrary          *)
(*             allocate / deallocate calls;                                *)
(*   MainSpec  one run of main for an arbitrary argument array.            *)
(***************************************************************************)
EXTENDS Integers, Sequences, FiniteSets, TLC

VARIABLES
  pmr_alloc,    \* the arena: [buf, buf_size, max_buf_size]
  calls,        \* every allocate / deallocate the arena has received, in order
  last,         \* the most recent call with its arguments and outcome
  cerr,         \* diagnostic stream
  pc,           \* position of main
  argv,         \* the raw argument array: NUL-terminated character arrays
  args,         \* std::pmr::vector<std::string_view>: [data, size, capacity]
  mem,          \* contents of the alloca block, one string_view per record slot
  cout,         \* standard output, a sequence of characters
  i,            \* loop index of better_main
  exit_status   \* how the process ended

vars == <<pmr_alloc, calls, last, cerr, pc, argv, args, mem, cout, i, exit_status>>

arenaVars == <<pmr_alloc, calls, last, cerr>>
mainVars  == <<pc, argv, args, mem, cout, i, exit_status>>

-----------------------------------------------------------------------------
(* Bounds *)

MaxCap   == 4     \* largest arena capacity of Spec, in bytes
MaxCalls == 3     \* calls made on the arena in Spec
MaxArgc  == 3     \* largest argc of MainSpec
MaxLen   == 1     \* longest argument string of MainSpec

(* Platform constant: sizeof(std::string_view) on an LP64 target. *)
SizeofStringView == 16

-----------------------------------------------------------------------------
(* Pointers: an offset into the alloca block, or null. *)

NullPtr == [obj |-> "null", off |-> 0]

alloca(n) == [obj |-> "stack", off |-> 0]

PtrAdd(p, k) == [p EXCEPT !.off = @ + k]

Alignments == {1, 8}

-----------------------------------------------------------------------------
(* my_cust_allocator *)

my_cust_allocator(b, n) == [buf |-> b, buf_size |-> n, max_buf_size |-> n]

(* Faulty variants of do_allocate, each with one plausible slip: refusing  *)
(* an exact fit, spending the capacity on a refusal, charging alignment    *)
(* padding, and returning a cursor computed after the charge.              *)
do_allocate_ge(self, bytes, alignment) ==
  IF bytes >= self.buf_size
    THEN [threw |-> TRUE, ret |-> NullPtr, self |-> self,
          diag |-> <<[requested |-> bytes, remaining |-> self.buf_size]>>]
    ELSE [threw |-> FALSE, ret |-> self.buf,
          self |-> [self EXCEPT !.buf_size = @ - bytes], diag |-> <<>>]

do_allocate_charge_first(self, bytes, alignment) ==
  IF bytes > self.buf_size
    THEN [threw |-> TRUE, ret |-> NullPtr,
          self |-> [self EXCEPT !.buf_size = 0],
          diag |-> <<[requested |-> bytes, remaining |-> self.buf_size]>>]
    ELSE [threw |-> FALSE, ret |-> self.buf,
          self |-> [self EXCEPT !.buf_size = @ - bytes], diag |-> <<>>]

RoundUp(n, a) == ((n + a - 1) \div a) * a

do_allocate_padded(self, bytes, alignment) ==
  IF bytes > self.buf_size
    THEN [threw |-> TRUE, ret |-> NullPtr, self |-> self,
          diag |-> <<[requested |-> bytes, remaining |-> self.buf_size]>>]
    ELSE [threw |-> FALSE, ret |-> self.buf,
          self |-> [self EXCEPT !.buf_size =
                      IF RoundUp(bytes, alignment) > @ THEN 0
                      ELSE @ - RoundUp(bytes, alignment)],
          diag |-> <<>>]

do_allocate_cursor_after(self, bytes, alignment) ==
  IF bytes > self.buf_size
    THEN [threw |-> TRUE, ret |-> NullPtr, self |-> self,
          diag |-> <<[requested |-> bytes, remaining |-> self.buf_size]>>]
    ELSE [threw |-> FALSE,
          ret |-> PtrAdd(self.buf, self.max_buf_size - (self.buf_size - bytes)),
          self |-> [self EXCEPT !.buf_size = @ - bytes], diag |-> <<>>]

(* do_allocate: throws std::bad_alloc, after a diagnostic line, when bytes *)
(* exceeds buf_size; otherwise charges bytes and returns buf itself.       *)
(* bytes <= buf_size on the charging branch, so the size_t subtraction     *)
(* never wraps.                                                            *)
do_allocate(self, bytes, alignment) ==
  IF bytes > self.buf_size
    THEN [threw |-> TRUE, ret |-> NullPtr, self |-> self,
          diag |-> <<[requested |-> bytes, remaining |-> self.buf_size]>>]
    ELSE [threw |-> FALSE, ret |-> self.buf,
          self |-> [self EXCEPT !.buf_size = @ - bytes], diag |-> <<>>]

do_deallocate_reclaim(self, p, bytes, alignment) ==
  [self EXCEPT !.buf_size = @ + bytes]

(* do_deallocate: empty body. *)
do_deallocate(self, p, bytes, alignment) == self

CallRec(op, p, bytes, alignment, threw, ret) ==
  [op |-> op, p |-> p, bytes |-> bytes, alignment |-> alignment,
   threw |-> threw, ret |-> ret]

NoCall == CallRec("none", NullPtr, 0, 1, FALSE, NullPtr)

(* The arena together with what it has been asked and has written. *)
ArenaState ==
  [pmr_alloc |-> pmr_alloc, calls |-> calls, last |-> last, cerr |-> cerr]

SetArena(S) ==
  /\ pmr_alloc' = S.pmr_alloc
  /\ calls' = S.calls
  /\ last' = S.last
  /\ cerr' = S.cerr

(* memory_resource::allocate: forwards to do_allocate. *)
allocate(S, bytes, alignment) ==
  LET r == do_allocate(S.pmr_alloc, bytes, alignment) IN
    [threw |-> r.threw, ret |-> r.ret,
     S |-> [pmr_alloc |-> r.self,
            calls |-> Append(S.calls, [op |-> "allocate", bytes |-> bytes,
                                       threw |-> r.threw, ret |-> r.ret]),
            last |-> CallRec("allocate", NullPtr, bytes, alignment,
                             r.threw, r.ret),
            cerr |-> S.cerr \o r.diag]]

(* memory_resource::deallocate: forwards to do_deallocate. *)
deallocate(S, p, bytes, alignment) ==
  [pmr_alloc |-> do_deallocate(S.pmr_alloc, p, bytes, alignment),
   calls |-> Append(S.calls, [op |-> "deallocate", bytes |-> bytes,
                              threw |-> FALSE, ret |-> NullPtr]),
   last |-> CallRec("deallocate", p, bytes, alignment, FALSE, NullPtr),
   cerr |-> S.cerr]

-----------------------------------------------------------------------------
(* Spec: an arena of capacity C under arbitrary calls. *)

(* The process has not ended. *)
Running == [how |-> "running", code |-> -1]

Idle == [data |-> NullPtr, size |-> 0, capacity |-> 0]

Init ==
  /\ \E C \in 0..MaxCap : pmr_alloc = my_cust_allocator(alloca(C), C)
  /\ calls = <<>>
  /\ last = NoCall
  /\ cerr = <<>>
  /\ pc = "arena"
  /\ argv = <<>>
  /\ args = Idle
  /\ mem = <<>>
  /\ cout = <<>>
  /\ i = 0
  /\ exit_status = Running

Allocate ==
  /\ Len(calls) < MaxCalls
  /\ \E bytes \in 0..(MaxCap + 1), alignment \in Alignments :
       SetArena(allocate(ArenaState, bytes, alignment).S)
  /\ UNCHANGED mainVars

Deallocate ==
  /\ Len(calls) < MaxCalls
  /\ \E p \in {NullPtr, pmr_alloc.buf}, bytes \in 0..(MaxCap + 1),
        alignment \in Alignments :
       SetArena(deallocate(ArenaState, p, bytes, alignment))
  /\ UNCHANGED mainVars

Next == Allocate \/ Deallocate

Spec == Init /\ [][Next]_vars

-----------------------------------------------------------------------------
(* Argument strings and string views *)

NUL == "NUL"

Alphabet == {"a", "b"}

(* The strings an invocation can pass: no character of one is NUL. *)
Strings == UNION {[1..n -> Alphabet] : n \in 0..MaxLen}

(* A raw argument as the system lays it out: its characters and a NUL. *)
CStr(s) == s \o <<NUL>>

RECURSIVE ScanNUL(_, _)
ScanNUL(str, k) == IF str[k] = NUL THEN k - 1 ELSE ScanNUL(str, k + 1)

(* std::char_traits<char>::length: characters before the first NUL. *)
strlen(str) == ScanNUL(str, 1)

string_view_with_NUL(j) == [arg |-> j, len |-> strlen(argv[j + 1]) + 1]

(* std::string_view(argv[j]): a pointer to raw argument j and its length. *)
string_view(j) == [arg |-> j, len |-> strlen(argv[j + 1])]

(* The characters a view denotes. *)
Content(v) == SubSeq(argv[v.arg + 1], 1, v.len)

Uninit == [arg |-> -1, len |-> 0]

argc == Len(argv)

-----------------------------------------------------------------------------
(* std::pmr::vector<std::string_view> over the arena *)

AlignofStringView == 8

Slot(p) == p.off \div SizeofStringView

(* Element k of the array at data. *)
ElementAt(M, data, k) == M[Slot(data) + k]

(* The elements of [from, from + n) moved to [to, to + n). *)
Relocate(M, from, to, n) ==
  [k \in DOMAIN M |->
     IF k >= Slot(to) /\ k < Slot(to) + n
       THEN M[Slot(from) + (k - Slot(to))]
       ELSE M[k]]

Max(a, b) == IF a >= b THEN a ELSE b

reserve_skipped(V, M, S, n) == [threw |-> FALSE, V |-> V, M |-> M, S |-> S]

(* vector::reserve(n): when n exceeds the capacity, allocate n records,    *)
(* move the elements over and release the old storage if there was any.    *)
reserve(V, M, S, n) ==
  IF n <= V.capacity
    THEN [threw |-> FALSE, V |-> V, M |-> M, S |-> S]
    ELSE LET a == allocate(S, n * SizeofStringView, AlignofStringView) IN
      IF a.threw
        THEN [threw |-> TRUE, V |-> V, M |-> M, S |-> a.S]
        ELSE [threw |-> FALSE,
              V |-> [data |-> a.ret, size |-> V.size, capacity |-> n],
              M |-> Relocate(M, V.data, a.ret, V.size),
              S |-> IF V.data = NullPtr THEN a.S
                    ELSE deallocate(a.S, V.data,
                                    V.capacity * SizeofStringView,
                                    AlignofStringView)]

(* vector::emplace_back(x): construct in place while there is room,        *)
(* otherwise grow the storage first.                                       *)
emplace_back(V, M, S, x) ==
  IF V.size < V.capacity
    THEN [threw |-> FALSE,
          V |-> [V EXCEPT !.size = @ + 1],
          M |-> [M EXCEPT ![Slot(V.data) + V.size] = x],
          S |-> S]
    ELSE LET len == V.size + Max(V.size, 1)
             a == allocate(S, len * SizeofStringView, AlignofStringView)
         IN
      IF a.threw
        THEN [threw |-> TRUE, V |-> V, M |-> M, S |-> a.S]
        ELSE [threw |-> FALSE,
              V |-> [data |-> a.ret, size |-> V.size + 1, capacity |-> len],
              M |-> [Relocate(M, V.data, a.ret, V.size)
                       EXCEPT ![Slot(a.ret) + V.size] = x],
              S |-> IF V.data = NullPtr THEN a.S
                    ELSE deallocate(a.S, V.data,
                                    V.capacity * SizeofStringView,
                                    AlignofStringView)]

(* ~vector: release the storage if there is any. *)
vector_destroy(V, S) ==
  IF V.data = NullPtr THEN S
  ELSE deallocate(S, V.data, V.capacity * SizeofStringView, AlignofStringView)

(* std::span over the vector: the same records, the same count. *)
span(V) == [data |-> V.data, size |-> V.size]

-----------------------------------------------------------------------------
(* MainSpec: one run of main. *)

buf_size_in_records(n) == n + 1

(* const size_t buf_size = (argc + 1) * sizeof(std::string_view) *)
buf_size(n) == (n + 1) * SizeofStringView

(* The state at the declaration of args: the startup line is on cerr, the  *)
(* arena stands over the alloca block and the vector is empty.  The        *)
(* program path is always present, so argc is at least 1.                  *)
MainInit ==
  /\ \E n \in 1..MaxArgc : argv \in [1..n -> {CStr(s) : s \in Strings}]
  /\ pmr_alloc = my_cust_allocator(alloca(buf_size(argc)), buf_size(argc))
  /\ calls = <<>>
  /\ last = NoCall
  /\ cerr = <<[argc |-> argc, sizeof |-> SizeofStringView]>>
  /\ pc = "reserve"
  /\ args = [data |-> NullPtr, size |-> 0, capacity |-> 0]
  /\ mem = [k \in 0..(buf_size(argc) \div SizeofStringView) - 1 |-> Uninit]
  /\ cout = <<>>
  /\ i = 0
  /\ exit_status = Running

(* An exception that leaves main uncaught ends the process abnormally. *)
Terminate ==
  /\ pc' = "terminated"
  /\ exit_status' = [how |-> "abort", code |-> -1]

(* args.reserve(argc) *)
main_reserve ==
  /\ pc = "reserve"
  /\ LET r == reserve(args, mem, ArenaState, argc) IN
       /\ SetArena(r.S)
       /\ args' = r.V
       /\ mem' = r.M
       /\ IF r.threw THEN Terminate
          ELSE /\ pc' = IF 0 < argc THEN "emplace" ELSE "better_main"
               /\ exit_status' = exit_status
  /\ i' = 0
  /\ UNCHANGED <<argv, cout>>

(* One iteration of the loop: args.emplace_back(argv[i]) and i++. *)
main_emplace_back ==
  /\ pc = "emplace"
  /\ i < argc
  /\ LET r == emplace_back(args, mem, ArenaState, string_view(i)) IN
       /\ SetArena(r.S)
       /\ args' = r.V
       /\ mem' = r.M
       /\ IF r.threw THEN Terminate
          ELSE /\ pc' = IF i + 1 < argc THEN "emplace" ELSE "better_main"
               /\ exit_status' = exit_status
  /\ i' = i + 1
  /\ UNCHANGED <<argv, cout>>

Quote == "\""

DebugPrefix == <<"D", "E", "B", "U", "G", ":", " ">>

prn_arg_unclosed(arg) == <<Quote>> \o Content(arg)

(* prn_arg: the argument between double quotes. *)
prn_arg(arg) == <<Quote>> \o Content(arg) \o <<Quote>>

last_i == span(args).size - 1

(* better_main is entered with a span over args; it writes its prefix.     *)
better_main_begin ==
  /\ pc = "better_main"
  /\ cout' = cout \o DebugPrefix
  /\ i' = 0
  /\ pc' = IF 0 < last_i THEN "print_loop" ELSE "print_last"
  /\ UNCHANGED <<arenaVars, argv, args, mem, exit_status>>

(* for (i = 0; i < last_i; i++) prn_arg(args[i]) << ' ' *)
better_main_loop ==
  /\ pc = "print_loop"
  /\ i < last_i
  /\ cout' = cout \o prn_arg(ElementAt(mem, span(args).data, i)) \o <<" ">>
  /\ i' = i + 1
  /\ pc' = IF i + 1 < last_i THEN "print_loop" ELSE "print_last"
  /\ UNCHANGED <<arenaVars, argv, args, mem, exit_status>>

(* prn_arg(args[last_i]) << '\n' *)
better_main_last ==
  /\ pc = "print_last"
  /\ cout' = cout \o prn_arg(ElementAt(mem, span(args).data, last_i))
                  \o <<"\n">>
  /\ pc' = "main_return"
  /\ UNCHANGED <<arenaVars, argv, args, mem, i, exit_status>>

better_main_result == 0

(* return better_main(args): args is destroyed and the status handed on. *)
main_return ==
  /\ pc = "main_return"
  /\ SetArena(vector_destroy(args, ArenaState))
  /\ exit_status' = [how |-> "exit", code |-> better_main_result]
  /\ pc' = "exited"
  /\ UNCHANGED <<argv, args, mem, cout, i>>

MainNext ==
  \/ main_reserve
  \/ main_emplace_back
  \/ better_main_begin
  \/ better_main_loop
  \/ better_main_last
  \/ main_return

(* main is one thread of straight-line code: it keeps taking steps. *)
MainSpec == MainInit /\ [][MainNext]_vars /\ WF_vars(MainNext)

-----------------------------------------------------------------------------
(* Properties of the arena, checked under Spec. *)

RECURSIVE Requested(_)
(* Total of the sizes passed to allocate so far, failed requests included. *)
Requested(log) ==
  IF log = <<>> THEN 0
  ELSE Requested(SubSeq(log, 1, Len(log) - 1))
       + (IF log[Len(log)].op = "allocate" THEN log[Len(log)].bytes ELSE 0)

(* A step is a call on the arena exactly when the log grows. *)
IsCall(op) == calls' # calls /\ last'.op = op

Granted == {k \in 1..Len(calls) : calls[k].op = "allocate" /\ ~calls[k].threw}

(* C1: allocate(size, alignment) fails with OutOfCapacity if and only if   *)
(* size is greater than the remaining capacity at the moment of the call;  *)
(* no call fails while the running total of requested sizes, the current   *)
(* one included, is at most the capacity; a zero-size request succeeds.    *)
C1_FailsIffExceedsRemaining ==
  [][IsCall("allocate") =>
       /\ last'.threw <=> (last'.bytes > pmr_alloc.buf_size)
       /\ (Requested(calls') <= pmr_alloc.max_buf_size) => ~last'.threw
       /\ (last'.bytes = 0) => ~last'.threw]_vars

(* A request for exactly the remaining capacity (positive) was granted     *)
(* after an earlier grant, and an oversized request was refused.           *)
C1_Witness ==
  /\ Len(calls) = 3
  /\ calls[1].op = "allocate" /\ ~calls[1].threw /\ calls[1].bytes > 0
  /\ calls[2].op = "allocate" /\ ~calls[2].threw /\ calls[2].bytes > 0
  /\ calls[1].bytes + calls[2].bytes = pmr_alloc.max_buf_size
  /\ calls[3].op = "allocate" /\ calls[3].threw

(* C2: a failed allocate leaves the arena unchanged (remaining capacity    *)
(* and recorded total capacity), so a later request that fits the          *)
(* remaining capacity still succeeds.                                      *)
C2_FailureLeavesArenaUnchanged ==
  [][IsCall("allocate") /\ last'.threw =>
       /\ pmr_alloc'.buf_size = pmr_alloc.buf_size
       /\ pmr_alloc'.max_buf_size = pmr_alloc.max_buf_size
       /\ \A b \in 0..pmr_alloc.buf_size, a \in Alignments :
            ~do_allocate(pmr_alloc', b, a).threw]_vars

(* A refused request was followed by a granted request of positive size.   *)
C2_Witness ==
  \E k \in 1..Len(calls) - 1 :
    /\ calls[k].op = "allocate" /\ calls[k].threw
    /\ calls[k + 1].op = "allocate" /\ ~calls[k + 1].threw
    /\ calls[k + 1].bytes > 0

Overlap(j, k) ==
  /\ calls[j].ret.obj = calls[k].ret.obj
  /\ calls[j].ret.off < calls[k].ret.off + calls[k].bytes
  /\ calls[k].ret.off < calls[j].ret.off + calls[j].bytes

(* C3: any two successful allocations of positive size return disjoint     *)
(* byte ranges [p1, p1+size1) and [p2, p2+size2).                          *)
C3_GrantedRegionsDisjoint ==
  \A j, k \in Granted :
    (j < k /\ calls[j].bytes > 0 /\ calls[k].bytes > 0) => ~Overlap(j, k)

(* C4: a successful allocate(size, alignment) lowers the remaining         *)
(* capacity by exactly size, with no padding charged, and leaves           *)
(* max_buf_size unchanged.                                                 *)
C4_SuccessChargesExactlySize ==
  [][IsCall("allocate") /\ ~last'.threw =>
       /\ pmr_alloc'.buf_size = pmr_alloc.buf_size - last'.bytes
       /\ pmr_alloc'.max_buf_size = pmr_alloc.max_buf_size]_vars

(* A granted request whose size is not a multiple of its alignment.        *)
C4_Witness ==
  /\ last.op = "allocate" /\ ~last.threw
  /\ last.bytes > 0 /\ last.bytes % last.alignment # 0
  /\ pmr_alloc.buf_size > 0

(* C5: every region returned by a successful allocate lies within          *)
(* [buf, buf + C), whatever allocate and deallocate calls came before.     *)
C5_GrantedRegionsInBuffer ==
  \A k \in Granted :
    /\ calls[k].ret.obj = pmr_alloc.buf.obj
    /\ pmr_alloc.buf.off <= calls[k].ret.off
    /\ calls[k].ret.off + calls[k].bytes
         <= pmr_alloc.buf.off + pmr_alloc.max_buf_size

(* A positive grant, a deallocate, then another positive grant.            *)
C5_Witness ==
  /\ Len(calls) = 3
  /\ 1 \in Granted /\ calls[1].bytes > 0
  /\ calls[2].op = "deallocate"
  /\ 3 \in Granted /\ calls[3].bytes > 0

(* C6: deallocate(ptr, size, alignment) changes nothing in any arena       *)
(* state: remaining capacity, total capacity and buffer pointer all stay,  *)
(* so consumed capacity is never returned.                                 *)
C6_DeallocateIsNoOp ==
  [][IsCall("deallocate") =>
       /\ pmr_alloc'.buf_size = pmr_alloc.buf_size
       /\ pmr_alloc'.max_buf_size = pmr_alloc.max_buf_size
       /\ pmr_alloc'.buf = pmr_alloc.buf]_vars

(* A deallocate of the granted region, with its size, on a part-used arena. *)
C6_Witness ==
  /\ last.op = "deallocate" /\ last.p = pmr_alloc.buf /\ last.bytes > 0
  /\ pmr_alloc.buf_size < pmr_alloc.max_buf_size
  /\ \E k \in Granted : calls[k].bytes = last.bytes

-----------------------------------------------------------------------------
(* Properties of a run of main, checked under MainSpec. *)

(* The consumer has been invoked with the span over args. *)
ConsumerInvoked ==
  pc \in {"better_main", "print_loop", "print_last", "main_return"}

(* The characters of raw argument k: the array without its terminator. *)
RawContent(k) == SubSeq(argv[k + 1], 1, Len(argv[k + 1]) - 1)

(* C7: the argument sequence passed to the consumer has length exactly n   *)
(* and element k has the content of raw argument k, for every k in [0, n). *)
C7_SequenceEqualsRawArguments ==
  ConsumerInvoked =>
    /\ span(args).size = argc
    /\ \A k \in 0..argc - 1 :
         Content(ElementAt(mem, span(args).data, k)) = RawContent(k)

(* The consumer is invoked with three arguments, of which two differ and   *)
(* one is empty.                                                           *)
C7_Witness ==
  /\ pc = "better_main"
  /\ argc = 3
  /\ RawContent(0) # RawContent(1)
  /\ RawContent(2) = <<>>
  /\ Len(RawContent(0)) = 1

RECURSIVE QuotedList(_)
(* The arguments from k on, each in double quotes, single spaces between. *)
QuotedList(k) ==
  <<Quote>> \o RawContent(k) \o <<Quote>>
    \o (IF k + 1 < argc THEN <<" ">> \o QuotedList(k + 1) ELSE <<>>)

(* C8 as claimed: standard output is exactly the quoted arguments, single  *)
(* spaces between, one newline after, nothing before the first quote.      *)
C8_OutputIsQuotedArguments ==
  pc = "exited" => cout = QuotedList(0) \o <<"\n">>

(* C8 as amended: standard output is the prefix "DEBUG: " followed by the  *)
(* quoted arguments in order, single spaces between, no trailing space,    *)
(* and one newline at the end.                                             *)
C8_OutputIsPrefixedQuotedArguments ==
  pc = "exited" => cout = DebugPrefix \o QuotedList(0) \o <<"\n">>

(* A run with three arguments, the second one non-empty, has exited.       *)
C8_Witness ==
  /\ pc = "exited"
  /\ argc = 3
  /\ Len(RawContent(1)) > 0

(* C9: every run with n >= 1 arguments ends normally with exit status 0;   *)
(* the arena is never exhausted, so no allocate fails on the way.          *)
C9_RunExitsWithZero ==
  /\ <>(pc = "exited" /\ exit_status = [how |-> "exit", code |-> 0])
  /\ [](pc # "terminated")
  /\ [](\A k \in 1..Len(calls) : ~calls[k].threw)

(* A run with more than one argument has exited with status 0.             *)
C9_Witness ==
  /\ pc = "exited"
  /\ exit_status = [how |-> "exit", code |-> 0]
  /\ argc > 1
  /\ \E k \in 1..Len(calls) : calls[k].op = "allocate"

(* C10: while the sequence is built the arena receives exactly one         *)
(* allocate, of n view records, before the first append; no append causes  *)
(* another allocate or a deallocate; at the consumer's invocation the      *)
(* remaining capacity is exactly one view record.                          *)
C10_OneAllocateOfNRecords ==
  /\ (pc = "reserve") => calls = <<>>
  /\ (pc \in {"emplace", "better_main"}) =>
       /\ Len(calls) = 1
       /\ calls[1].op = "allocate"
       /\ calls[1].bytes = argc * SizeofStringView
       /\ ~calls[1].threw
  /\ (pc = "better_main") => pmr_alloc.buf_size = SizeofStringView

(* The consumer is about to run after three appends.                       *)
C10_Witness ==
  /\ pc = "better_main"
  /\ args.size = 3
  /\ pmr_alloc.buf_size = SizeofStringView

====
